---- MODULE Spec2Model ----
(***************************************************************************)
(* A model of two parts of pygmt:                                          *)
(*   - pygmt/src/shift_origin.py : _opposite_shift and the context manager *)
(*     Figure.shift_origin;                                                *)
(*   - pygmt/datatypes.py : GMT_GRID.to_dataarray.                         *)
(* Python strings are sequences of one-character strings; Python values    *)
(* are records tagged with their type.                                     *)
(***************************************************************************)
EXTENDS Integers, Sequences, FiniteSets, Bags, TLC

\* ------------------------------------------------------------------ bounds
MaxOps == 3        \* operations on one Figure in a run
MaxDepth == 2      \* nested with-blocks
MaxCols == 3       \* header.n_columns ranges over 0..MaxCols
MaxRows == 3       \* header.n_rows ranges over 0..MaxRows

VARIABLES
    \* --- Figure / shift_origin
    origin,      \* the engine's plot origin: [x |-> vector, y |-> vector]
    stack,       \* the suspended shift_origin generators, innermost last
    issued,      \* the args string of the last plot command sent to the engine
    requested,   \* history: the sum of the shifts asked for by plain calls
    last,        \* history: what the last operation was and what it saw
    nops,        \* operations so far
    \* --- _opposite_shift applied on its own
    oarg, ores, ores2, opc,
    \* --- GMT_GRID.to_dataarray
    grid,        \* the GMT_GRID record in the engine's memory
    junk,        \* what lies behind a too-short buffer in memory
    gpc,         \* "ready" | "done"
    result       \* what to_dataarray returned or raised

shiftVars == <<origin, stack, issued, requested, last, nops>>
oppVars == <<oarg, ores, ores2, opc>>
gridVars == <<grid, junk, gpc, result>>
vars == <<origin, stack, issued, requested, last, nops, oarg, ores, ores2, opc, grid, junk, gpc, result>>

\* ------------------------------------------------------- Python values
None == [t |-> "none"]
PyInt(n) == [t |-> "int", v |-> n]
\* a float with one decimal: sign bit and magnitude in tenths (-0.0 exists)
PyFloat(neg, tenths) == [t |-> "float", neg |-> neg, tenths |-> tenths]
PyStr(s) == [t |-> "str", s |-> s]
PyOther == [t |-> "list"]
GMTInvalidInput == [t |-> "raise", exc |-> "GMTInvalidInput"]

Digits == <<"0", "1", "2", "3", "4", "5", "6", "7", "8", "9">>
IsDigit(ch) == \E i \in 1..10 : Digits[i] = ch
DigitVal(ch) == (CHOOSE i \in 1..10 : Digits[i] = ch) - 1

RECURSIVE NatStr(_)
\* str() of a non-negative integer
NatStr(n) == IF n < 10 THEN <<Digits[n + 1]>> ELSE NatStr(n \div 10) \o <<Digits[(n % 10) + 1]>>

RECURSIVE DigitsVal(_, _)
\* the value of a run of digits, acc the value read so far
DigitsVal(s, acc) == IF s = <<>> THEN acc ELSE DigitsVal(Tail(s), 10 * acc + DigitVal(Head(s)))

AllDigits(s) == \A i \in 1..Len(s) : IsDigit(s[i])

StartsWith(s, ch) == Len(s) > 0 /\ s[1] = ch

\* float(n) of an int
FloatOfInt(n) == PyFloat(n < 0, 10 * (IF n < 0 THEN -n ELSE n))

\* -f of a float: the sign bit flips, also on zero
NegFloat(f) == PyFloat(~f.neg, f.tenths)

\* str(f) of a float: repr with one decimal, "-0.0" for negative zero
StrOfFloat(f) ==
    (IF f.neg THEN <<"-">> ELSE <<>>) \o NatStr(f.tenths \div 10) \o <<".">> \o <<Digits[(f.tenths % 10) + 1]>>

\* the unsigned part of a float literal: digits, optionally "." and at most
\* one more digit (literals with more decimals, exponents, inf and nan are
\* outside the inputs considered)
IsUnsignedLiteral(s) ==
    \/ Len(s) >= 1 /\ AllDigits(s)
    \/ \E k \in 1..Len(s) :
          /\ s[k] = "."
          /\ k >= 2
          /\ AllDigits(SubSeq(s, 1, k - 1))
          /\ Len(s) - k <= 1
          /\ AllDigits(SubSeq(s, k + 1, Len(s)))

UnsignedTenths(s) ==
    IF AllDigits(s) THEN 10 * DigitsVal(s, 0)
    ELSE LET k == CHOOSE k \in 1..Len(s) : s[k] = "."
             frac == SubSeq(s, k + 1, Len(s))
         IN 10 * DigitsVal(SubSeq(s, 1, k - 1), 0) + DigitsVal(frac, 0)

Unsigned(s) == IF StartsWith(s, "+") \/ StartsWith(s, "-") THEN Tail(s) ELSE s

\* float(s) succeeds (no ValueError)
IsFloatStr(s) == IsUnsignedLiteral(Unsigned(s))

\* float(s) of a string for which it succeeds
FloatOfStr(s) == PyFloat(StartsWith(s, "-"), UnsignedTenths(Unsigned(s)))

\* str.replace(old, new) for one-character old and new
Replace(s, old, new) == [i \in 1..Len(s) |-> IF s[i] = old THEN new ELSE s[i]]

\* the ValueError branch of _opposite_shift, dropping the leading "+"
opposite_terms_no_plus(s) ==
    LET t == IF StartsWith(s, "-") THEN Tail(s) ELSE s
    IN Replace(Replace(Replace(t, "+", "#"), "-", "+"), "#", "-")

\* the ValueError branch of _opposite_shift: flip the sign of every term
opposite_terms(s) ==
    LET t == IF StartsWith(s, "-") THEN Tail(s)
             ELSE IF ~StartsWith(s, "+") THEN <<"+">> \o s
             ELSE s
    IN Replace(Replace(Replace(t, "+", "#"), "-", "+"), "#", "-")

\* _opposite_shift(shift): the value returned, or the exception raised
_opposite_shift(shift) ==
    IF shift.t = "none" THEN None
    ELSE IF shift.t \in {"int", "float"} THEN
        NegFloat(IF shift.t = "int" THEN FloatOfInt(shift.v) ELSE shift)
    ELSE IF shift.t = "str" THEN
        IF IsFloatStr(shift.s) THEN PyStr(StrOfFloat(NegFloat(FloatOfStr(shift.s))))
        ELSE PyStr(opposite_terms(shift.s))
    ELSE GMTInvalidInput

\* bool(v): Python truthiness of a shift value
Truthy(v) ==
    CASE v.t = "none" -> FALSE
      [] v.t = "int" -> v.v # 0
      [] v.t = "float" -> v.tenths # 0
      [] v.t = "str" -> v.s # <<>>
      [] OTHER -> TRUE

\* str(v) as an f-string formats it
Format(v) ==
    CASE v.t = "none" -> <<"N", "o", "n", "e">>
      [] v.t = "int" -> (IF v.v < 0 THEN <<"-">> \o NatStr(-v.v) ELSE NatStr(v.v))
      [] v.t = "float" -> StrOfFloat(v)
      [] v.t = "str" -> v.s
      [] OTHER -> <<"[", "]">>

\* ------------------------------------------------------- the engine
\* A length is a linear form over units: a function from the unit text to a
\* coefficient in tenths, defined where the coefficient is not zero.
Zero == [k \in {} |-> 0]
Coef(v, k) == IF k \in DOMAIN v THEN v[k] ELSE 0
VAdd(a, b) ==
    LET d == {k \in (DOMAIN a) \cup (DOMAIN b) : Coef(a, k) + Coef(b, k) # 0}
    IN [k \in d |-> Coef(a, k) + Coef(b, k)]

RECURSIVE NumLen(_)
\* the length of the leading run of digits and "."
NumLen(s) == IF s # <<>> /\ (IsDigit(Head(s)) \/ Head(s) = ".") THEN 1 + NumLen(Tail(s)) ELSE 0

\* one unsigned term: a number, a unit, or a number followed by a unit; the
\* default unit is c (centimetres)
TermValue(term, sign) ==
    IF term = <<>> THEN Zero
    ELSE LET n == NumLen(term)
             num == SubSeq(term, 1, n)
             unit == SubSeq(term, n + 1, Len(term))
         IN IF n = 0 THEN [k \in {term} |-> sign * 10]
            ELSE IF ~IsUnsignedLiteral(num) THEN [k \in {term} |-> sign * 10]
            ELSE IF UnsignedTenths(num) = 0 THEN Zero
            ELSE [k \in {IF unit = <<>> THEN <<"c">> ELSE unit} |-> sign * UnsignedTenths(num)]

RECURSIVE SumTerms(_, _, _)
\* the value of a shift expression: s the text left, sign and term the term
\* being read
SumTerms(s, sign, term) ==
    IF s = <<>> THEN TermValue(term, sign)
    ELSE IF Head(s) \in {"+", "-"} THEN
        VAdd(TermValue(term, sign), SumTerms(Tail(s), IF Head(s) = "+" THEN 1 ELSE -1, <<>>))
    ELSE SumTerms(Tail(s), sign, Append(term, Head(s)))

\* the length a -X or -Y option names, relative to the current origin
EvalShift(s) == SumTerms(s, 1, <<>>)

RECURSIVE Join(_)
\* " ".join(args)
Join(args) ==
    IF args = <<>> THEN <<>>
    ELSE IF Len(args) = 1 THEN args[1]
    ELSE args[1] \o <<" ">> \o Join(Tail(args))

RECURSIVE Split(_, _)
\* the engine splits the args string at spaces; cur is the option being read
Split(s, cur) ==
    IF s = <<>> THEN (IF cur = <<>> THEN <<>> ELSE <<cur>>)
    ELSE IF Head(s) = " " THEN (IF cur = <<>> THEN <<>> ELSE <<cur>>) \o Split(Tail(s), <<>>)
    ELSE Split(Tail(s), Append(cur, Head(s)))

\* one option of the plot module applied to the origin
ApplyOption(o, opt) ==
    IF Len(opt) >= 2 /\ opt[1] = "-" /\ opt[2] = "X"
    THEN [o EXCEPT !.x = VAdd(o.x, EvalShift(SubSeq(opt, 3, Len(opt))))]
    ELSE IF Len(opt) >= 2 /\ opt[1] = "-" /\ opt[2] = "Y"
    THEN [o EXCEPT !.y = VAdd(o.y, EvalShift(SubSeq(opt, 3, Len(opt))))]
    ELSE o

RECURSIVE ApplyOptions(_, _)
ApplyOptions(o, opts) == IF opts = <<>> THEN o ELSE ApplyOptions(ApplyOption(o, Head(opts)), Tail(opts))

\* lib.call_module(module="plot", args=args): the origin afterwards
call_module_plot(o, args) == ApplyOptions(o, Split(args, <<>>))

\* ------------------------------------------------------- shift_origin
\* old_xshift = _opposite_shift(xshift)
old_xshift_of(xshift, yshift) == _opposite_shift(xshift)

\* old_yshift = _opposite_shift(xshift)
old_yshift_of(xshift, yshift) == _opposite_shift(xshift)

\* the args list built from an x and a y value, joined
plot_args(xs, ys) ==
    Join(<<<<"-", "T">>>>
         \o (IF Truthy(xs) THEN <<<<"-", "X">> \o Format(xs)>> ELSE <<>>)
         \o (IF Truthy(ys) THEN <<<<"-", "Y">> \o Format(ys)>> ELSE <<>>))

\* the shift values a caller passes
ShiftsX == {None, PyInt(2), PyStr(<<"-", "4", "c">>), PyStr(<<"h", "+", "5", "c">>), PyOther}
ShiftsY == {None, PyStr(<<"3", "c">>), PyFloat(FALSE, 15)}

\* the shift a caller asks for, as a length
Asked(v) == IF Truthy(v) THEN EvalShift(Format(v)) ELSE Zero

Origin0 == [x |-> Zero, y |-> Zero]

ShiftInit ==
    /\ origin = Origin0
    /\ stack = <<>>
    /\ issued = <<>>
    /\ requested = [x |-> Zero, y |-> Zero, plain |-> TRUE]
    /\ last = [op |-> "init", xshift |-> None, yshift |-> None, before |-> Origin0, entry |-> Origin0]
    /\ nops = 0

\* fig.shift_origin(xshift, yshift) as a statement: the call builds the
\* generator's context manager and nothing of the body runs
PlainCall(xshift, yshift) ==
    /\ nops < MaxOps
    /\ nops' = nops + 1
    /\ requested' = [requested EXCEPT !.x = VAdd(@, Asked(xshift)), !.y = VAdd(@, Asked(yshift))]
    /\ last' = [op |-> "call", xshift |-> xshift, yshift |-> yshift, before |-> origin, entry |-> origin]
    /\ UNCHANGED <<origin, stack, issued>>

\* with fig.shift_origin(xshift, yshift): the body of the generator up to
\* its yield
Enter(xshift, yshift) ==
    /\ nops < MaxOps
    /\ Len(stack) < MaxDepth
    /\ old_xshift_of(xshift, yshift).t # "raise"
    /\ old_yshift_of(xshift, yshift).t # "raise"
    /\ nops' = nops + 1
    /\ issued' = plot_args(xshift, yshift)
    /\ origin' = call_module_plot(origin, plot_args(xshift, yshift))
    /\ stack' = Append(stack, [old_xshift |-> old_xshift_of(xshift, yshift),
                               old_yshift |-> old_yshift_of(xshift, yshift),
                               xshift |-> xshift, yshift |-> yshift, entry |-> origin])
    /\ requested' = [requested EXCEPT !.plain = FALSE]
    /\ last' = [op |-> "enter", xshift |-> xshift, yshift |-> yshift, before |-> origin, entry |-> origin]

\* with fig.shift_origin(xshift, yshift) where _opposite_shift raises: the
\* exception leaves the generator before the try statement
EnterRaises(xshift, yshift) ==
    /\ nops < MaxOps
    /\ Len(stack) < MaxDepth
    /\ \/ old_xshift_of(xshift, yshift).t = "raise"
       \/ old_yshift_of(xshift, yshift).t = "raise"
    /\ nops' = nops + 1
    /\ requested' = [requested EXCEPT !.plain = FALSE]
    /\ last' = [op |-> "enter_raised", xshift |-> xshift, yshift |-> yshift, before |-> origin, entry |-> origin]
    /\ UNCHANGED <<origin, stack, issued>>

\* a plotting call (fig.basemap): it draws at the current origin
Plot ==
    /\ nops < MaxOps
    /\ nops' = nops + 1
    /\ last' = [op |-> "plot", xshift |-> None, yshift |-> None, before |-> origin, entry |-> origin]
    /\ UNCHANGED <<origin, stack, issued, requested>>

\* the finally clause of the innermost generator
Finally(how) ==
    LET f == stack[Len(stack)]
        args == plot_args(f.old_xshift, f.old_yshift)
    IN /\ stack # <<>>
       /\ issued' = args
       /\ origin' = call_module_plot(origin, args)
       /\ stack' = SubSeq(stack, 1, Len(stack) - 1)
       /\ last' = [op |-> how, xshift |-> f.xshift, yshift |-> f.yshift, before |-> origin, entry |-> f.entry]
       /\ UNCHANGED <<requested, nops>>

\* the with-block's body finishes
ExitNormal == Finally("exit")

\* the with-block's body raises: the exception is thrown into the generator
\* at its yield
ExitRaise == Finally("exit_raised")

\* ------------------------------------------- _opposite_shift on its own
SignsFirst == {<<>>, <<"+">>, <<"-">>}
TermsFirst == {<<"5", "c">>, <<"h">>, <<"0", ".", "5", "h">>, <<"h", "/", "3">>, <<"5">>, <<"2", ".", "5">>}
TermsMore == {<<>>, <<"+", "2", "c">>, <<"-", "2", "c">>, <<"+", "5", "c">>, <<"-", "5", "c">>}
ShiftStrings == {a \o b \o c : a \in SignsFirst, b \in TermsFirst, c \in TermsMore}
ShiftNumbers == {PyInt(n) : n \in -2..2} \cup {PyFloat(neg, t) : neg \in BOOLEAN, t \in {0, 15, 50}}
OppInputs == {None, PyOther} \cup ShiftNumbers \cup {PyStr(s) : s \in ShiftStrings}

OppInit ==
    /\ oarg \in OppInputs
    /\ ores = None
    /\ ores2 = None
    /\ opc = "start"

\* _opposite_shift(shift)
Opposite ==
    /\ opc = "start"
    /\ ores' = _opposite_shift(oarg)
    /\ opc' = IF _opposite_shift(oarg).t = "raise" THEN "raised" ELSE "once"
    /\ UNCHANGED <<oarg, ores2>>

\* _opposite_shift(_opposite_shift(shift))
OppositeAgain ==
    /\ opc = "once"
    /\ ores2' = _opposite_shift(ores)
    /\ opc' = "twice"
    /\ UNCHANGED <<oarg, ores>>

\* ------------------------------------------- GMT_GRID.to_dataarray
LonUnits == "longitude [degrees_east]"
LatUnits == "latitude [degrees_north]"
UnitsX == {LonUnits, "Longitude [degrees_east]", LatUnits}
UnitsY == {LatUnits, "latitude [degrees_North]", "y"}

\* the paddings west, east, south, north; the engine's default is 2 on
\* every side
PadChoices == {<<0, 0, 0, 0>>, <<2, 2, 2, 2>>, <<1, 0, 0, 1>>, <<0, 1, 1, 0>>, <<1, 2, 2, 1>>}

Reversed(s) == [i \in 1..Len(s) |-> s[Len(s) + 1 - i]]

\* a coordinate vector of n nodes, stored ascending or descending
CoordsX(n, dir) == LET a == [i \in 1..n |-> 10 * i] IN IF dir = "asc" THEN a ELSE Reversed(a)
CoordsY(n, dir) == LET a == [i \in 1..n |-> i - 7] IN IF dir = "asc" THEN a ELSE Reversed(a)

Malformations == {"data_short", "data_long", "x_short", "x_long", "y_short", "mx_off", "my_off"}

\* the record the engine hands over: cell k of the buffer holds 100 + k
MakeGrid(cols, rows, pad, xdir, ydir, reg, xu, yu, m) ==
    LET mx == cols + pad[1] + pad[2] + (IF m = "mx_off" THEN 1 ELSE 0)
        my == rows + pad[3] + pad[4] + (IF m = "my_off" THEN 1 ELSE 0)
        nd == mx * my + (IF m = "data_short" THEN -1 ELSE IF m = "data_long" THEN 1 ELSE 0)
        nx == cols + (IF m = "x_short" THEN -1 ELSE IF m = "x_long" THEN 1 ELSE 0)
        ny == rows + (IF m = "y_short" THEN -1 ELSE 0)
    IN [n_columns |-> cols, n_rows |-> rows, registration |-> reg,
        x_units |-> xu, y_units |-> yu, mx |-> mx, my |-> my, pad |-> pad,
        data |-> [k \in 1..nd |-> 100 + k],
        x |-> CoordsX(nx, xdir), y |-> CoordsY(ny, ydir)]

NoResult == [status |-> "none"]

GridInit ==
    /\ gpc = "ready"
    /\ result = NoResult
    /\ \E cols \in 0..MaxCols, rows \in 0..MaxRows, pad \in PadChoices, xdir \in {"asc", "desc"}, ydir \in {"asc", "desc"} :
          \/ /\ junk = 0
             /\ \E reg \in {0, 1}, xu \in UnitsX, yu \in UnitsY :
                   grid = MakeGrid(cols, rows, pad, xdir, ydir, reg, xu, yu, "none")
          \/ /\ junk \in {0, 999}
             /\ \E m \in Malformations :
                   /\ m = "data_short" => (cols + pad[1] + pad[2]) * (rows + pad[3] + pad[4]) >= 1
                   /\ m = "x_short" => cols >= 1
                   /\ m = "y_short" => rows >= 1
                   /\ grid = MakeGrid(cols, rows, pad, xdir, ydir, 0, LonUnits, LatUnits, m)

\* ptr[:n] of a ctypes pointer: n items from the start of the buffer,
\* whatever lies behind it (j) once the buffer has ended
PtrRead(mem, n, j) == [i \in 1..n |-> IF i <= Len(mem) THEN mem[i] ELSE j]

\* np.reshape(buf, (my, mx)), row-major
Reshape(buf, my, mx) == [r \in 1..my |-> [c \in 1..mx |-> buf[(r - 1) * mx + c]]]

\* the bounds of a[lo:hi] on n items (lo >= 0; a negative hi counts from
\* the end): the items lo+1 .. hi of the 1-based sequence
SliceLo(lo, n) == IF lo > n THEN n ELSE lo
SliceHi(hi, n) == IF hi < 0 THEN (IF hi + n < 0 THEN 0 ELSE hi + n) ELSE IF hi > n THEN n ELSE hi
SliceLen(lo, hi, n) == IF SliceHi(hi, n) > SliceLo(lo, n) THEN SliceHi(hi, n) - SliceLo(lo, n) ELSE 0
Slice(s, lo, hi) == SubSeq(s, SliceLo(lo, Len(s)) + 1, SliceHi(hi, Len(s)))

\* the trim with the south and north paddings exchanged
TrimSwapped(m, pad, my, mx) ==
    LET rows == Slice(m, pad[4], my - pad[3])
    IN [r \in 1..Len(rows) |-> Slice(rows[r], pad[1], mx - pad[2])]

\* m[pad[2] : my - pad[3], pad[0] : mx - pad[1]]
Trim(m, pad, my, mx) ==
    LET rows == Slice(m, pad[3], my - pad[4])
    IN [r \in 1..Len(rows) |-> Slice(rows[r], pad[1], mx - pad[2])]

\* the shape of the trimmed block
TrimShape(pad, my, mx) == <<SliceLen(pad[3], my - pad[4], my), SliceLen(pad[1], mx - pad[2], mx)>>

\* np.fliplr left out
fliplr_none(m) == m

\* np.fliplr(m)
fliplr(m) == [r \in 1..Len(m) |-> Reversed(m[r])]

\* np.flipud(m)
flipud(m) == Reversed(m)

\* the test with the comparison turned round
Descending_lt(v) == v[1] < v[2]

\* v[0] > v[1]
Descending(v) == v[1] > v[2]

\* gtype from one of the two units
gtype_of_either(x_units, y_units) == IF x_units = LonUnits \/ y_units = LatUnits THEN 1 ELSE 0

\* the gtype property from the x and y units
gtype_of(x_units, y_units) == IF x_units = LonUnits /\ y_units = LatUnits THEN 1 ELSE 0

\* GMT_GRID.to_dataarray: the DataArray returned or the exception raised
to_dataarray(g, j) ==
    LET x == PtrRead(g.x, g.n_columns, j)
        y == PtrRead(g.y, g.n_rows, j)
        data == Trim(Reshape(PtrRead(g.data, g.mx * g.my, j), g.my, g.mx), g.pad, g.my, g.mx)
        shape == TrimShape(g.pad, g.my, g.mx)
    IN IF Len(x) < 2 THEN [status |-> "IndexError"]
       ELSE LET fx == Descending(x)
                x1 == IF fx THEN Reversed(x) ELSE x
                data1 == IF fx THEN fliplr(data) ELSE data
            IN IF Len(y) < 2 THEN [status |-> "IndexError"]
               ELSE LET fy == Descending(y)
                        y1 == IF fy THEN Reversed(y) ELSE y
                        data2 == IF fy THEN flipud(data1) ELSE data1
                    IN IF shape # <<Len(y1), Len(x1)>> THEN [status |-> "ValueError"]
                       ELSE [status |-> "ok", data |-> data2, lat |-> y1, lon |-> x1,
                             registration |-> g.registration,
                             gtype |-> gtype_of(g.x_units, g.y_units)]

\* some pointer is read past the end of what the engine allocated
ReadsPastEnd(g) ==
    \/ g.n_columns > Len(g.x)
    \/ g.n_rows > Len(g.y)
    \/ g.mx * g.my > Len(g.data)

\* grid.to_dataarray()
ToDataArray ==
    /\ gpc = "ready"
    /\ result' = to_dataarray(grid, junk)
    /\ gpc' = "done"
    /\ UNCHANGED <<grid, junk>>

\* grid.to_dataarray() where a read past the end of a buffer faults
ReadFault ==
    /\ gpc = "ready"
    /\ ReadsPastEnd(grid)
    /\ result' = [status |-> "fault"]
    /\ gpc' = "done"
    /\ UNCHANGED <<grid, junk>>

\* ------------------------------------------------------- specifications
ShiftIdle == ShiftInit
OppIdle == oarg = None /\ ores = None /\ ores2 = None /\ opc = "idle"
GridIdle == grid = MakeGrid(0, 0, <<0, 0, 0, 0>>, "asc", "asc", 0, "", "", "none") /\ junk = 0 /\ gpc = "idle" /\ result = NoResult

Init == ShiftInit /\ OppIdle /\ GridIdle
Next ==
    \/ \E xshift \in ShiftsX \ {PyOther}, yshift \in ShiftsY : PlainCall(xshift, yshift) /\ UNCHANGED <<oppVars, gridVars>>
    \/ \E xshift \in ShiftsX, yshift \in ShiftsY : Enter(xshift, yshift) /\ UNCHANGED <<oppVars, gridVars>>
    \/ \E xshift \in ShiftsX, yshift \in ShiftsY : EnterRaises(xshift, yshift) /\ UNCHANGED <<oppVars, gridVars>>
    \/ Plot /\ UNCHANGED <<oppVars, gridVars>>
    \/ ExitNormal /\ UNCHANGED <<oppVars, gridVars>>
    \/ ExitRaise /\ UNCHANGED <<oppVars, gridVars>>
Spec == Init /\ [][Next]_vars

InitOpp == OppInit /\ ShiftIdle /\ GridIdle
NextOpp ==
    \/ Opposite /\ UNCHANGED <<shiftVars, gridVars>>
    \/ OppositeAgain /\ UNCHANGED <<shiftVars, gridVars>>
SpecOpp == InitOpp /\ [][NextOpp]_vars

InitGrid == GridInit /\ ShiftIdle /\ OppIdle
NextGrid ==
    \/ ToDataArray /\ UNCHANGED <<shiftVars, oppVars>>
    \/ ReadFault /\ UNCHANGED <<shiftVars, oppVars>>
SpecGrid == InitGrid /\ [][NextGrid]_vars

\* ------------------------------------------------------- grid claims
\* the record meets the decoder's preconditions
ValidRecord(g) ==
    /\ g.n_columns >= 1
    /\ g.n_rows >= 1
    /\ g.mx = g.n_columns + g.pad[1] + g.pad[2]
    /\ g.my = g.n_rows + g.pad[3] + g.pad[4]
    /\ Len(g.data) = g.mx * g.my
    /\ Len(g.x) = g.n_columns
    /\ Len(g.y) = g.n_rows

\* the stored value of logical row r and logical column c: stored row
\* pad.south + r and stored column pad.west + c of the row-major buffer
Cell(g, r, c) == g.data[(g.pad[3] + r - 1) * g.mx + g.pad[1] + c]

TrimmedLayout(g) == [r \in 1..g.n_rows |-> [c \in 1..g.n_columns |-> Cell(g, r, c)]]

StrictlyAscending(v) == \A i \in 1..(Len(v) - 1) : v[i] < v[i + 1]
StoredDescending(v) == Len(v) >= 2 /\ v[1] > v[2]

Decoded == gpc = "done" /\ result.status = "ok"

\* C1: for a valid record with at least two columns and two rows, decoding
\* succeeds and the output value labelled (y, x) is the trimmed input value
\* of the row whose y-coordinate is y and the column whose x-coordinate is
\* x; a descending axis comes out reversed (first output column = last
\* trimmed column, first output row = last trimmed row) and an ascending
\* axis is left in the stored order.
C1_AlignmentExact ==
    (gpc = "done" /\ ValidRecord(grid) /\ grid.n_columns >= 2 /\ grid.n_rows >= 2) =>
        /\ result.status = "ok"
        /\ Len(result.lat) = grid.n_rows /\ Len(result.lon) = grid.n_columns
        /\ \A r \in 1..grid.n_rows : \E i \in 1..grid.n_rows : result.lat[i] = grid.y[r]
        /\ \A c \in 1..grid.n_columns : \E j \in 1..grid.n_columns : result.lon[j] = grid.x[c]
        /\ \A i, r \in 1..grid.n_rows : \A j, c \in 1..grid.n_columns :
              (result.lat[i] = grid.y[r] /\ result.lon[j] = grid.x[c]) => result.data[i][j] = Cell(grid, r, c)
        /\ StoredDescending(grid.x) =>
              \A i \in 1..grid.n_rows : \E r \in 1..grid.n_rows : result.data[i][1] = Cell(grid, r, grid.n_columns)
        /\ StoredDescending(grid.y) =>
              \A j \in 1..grid.n_columns : \E c \in 1..grid.n_columns : result.data[1][j] = Cell(grid, grid.n_rows, c)
        /\ ~StoredDescending(grid.x) => result.lon = grid.x
        /\ ~StoredDescending(grid.y) => result.lat = grid.y
        /\ (~StoredDescending(grid.x) /\ ~StoredDescending(grid.y)) => result.data = TrimmedLayout(grid)

C1_Witness ==
    /\ Decoded /\ ValidRecord(grid)
    /\ grid.n_columns = 3 /\ grid.n_rows = 2
    /\ StoredDescending(grid.x) /\ ~StoredDescending(grid.y)
    /\ grid.pad = <<1, 2, 2, 1>>
    /\ result.data[1][1] = Cell(grid, 1, 3)

\* C2: whenever a valid record is decoded, the output's lon and lat
\* coordinate sequences are strictly ascending, whichever way they were
\* stored.
C2_AxesAscending ==
    (Decoded /\ ValidRecord(grid)) => (StrictlyAscending(result.lon) /\ StrictlyAscending(result.lat))

C2_Witness ==
    /\ Decoded /\ ValidRecord(grid)
    /\ grid.n_columns = 3 /\ grid.n_rows = 3
    /\ StoredDescending(grid.x) /\ StoredDescending(grid.y)
    /\ result.lon = Reversed(grid.x) /\ result.lat = Reversed(grid.y)

OutCells == {<<i, j>> \in (1..Len(result.data)) \X (1..grid.n_columns) : TRUE}
InCells == (1..grid.n_rows) \X (1..grid.n_columns)

C4_SingleNodeAxisDecodes ==
    (gpc = "done" /\ ValidRecord(grid) /\ (grid.n_columns = 1 \/ grid.n_rows = 1)) =>
        (result.status = "ok" /\ result.data = TrimmedLayout(grid))

\* C5: a record that breaks a precondition is rejected with
\* MalformedRecord, and nothing else happens to it.
C5_MalformedRejected ==
    (gpc = "done" /\ ~ValidRecord(grid)) => result.status = "MalformedRecord"

\* C6: a decoded grid has gtype 1 exactly when x_units is
\* "longitude [degrees_east]" and y_units is "latitude [degrees_north]",
\* and gtype 0 otherwise; what the units say never makes decoding fail.
C6_GeographicTag ==
    /\ Decoded =>
          /\ result.gtype \in {0, 1}
          /\ result.gtype = 1 <=> (grid.x_units = LonUnits /\ grid.y_units = LatUnits)
    /\ (gpc = "done" /\ ValidRecord(grid) /\ grid.n_columns >= 2 /\ grid.n_rows >= 2) => result.status = "ok"

C6_Witness ==
    /\ Decoded
    /\ grid.x_units = "Longitude [degrees_east]" /\ grid.y_units = LatUnits
    /\ grid.registration = 1
    /\ StoredDescending(grid.x)
    /\ result.gtype = 0

\* ------------------------------------------------------- shift claims
Exited == last.op \in {"exit", "exit_raised"}

\* the args string holds an option -<letter>
HasOption(args, letter) ==
    \E i \in 1..Len(Split(args, <<>>)) :
        LET opt == Split(args, <<>>)[i] IN Len(opt) >= 2 /\ opt[1] = "-" /\ opt[2] = letter

\* C7: after shift_origin calls made as plain statements, the origin the
\* next plotting call draws at is the sum of the shifts given so far.
C7_PlainCallsShift ==
    (last.op = "plot" /\ requested.plain) => (origin.x = requested.x /\ origin.y = requested.y)

\* C8: when a with-block of shift_origin has exited, normally or by an
\* exception, the origin is the one it was entered at, in x and in y.
C8_ExitRestoresOrigin ==
    Exited => origin = last.entry

\* C9: an axis whose shift is None gets no -X (or -Y) option, on entry and
\* on exit, and is where it was when the with-block has exited.
C9_OmittedAxisUntouched ==
    /\ (last.op \in {"enter", "exit", "exit_raised"} /\ last.xshift = None) => ~HasOption(issued, "X")
    /\ (last.op \in {"enter", "exit", "exit_raised"} /\ last.yshift = None) => ~HasOption(issued, "Y")
    /\ (Exited /\ last.xshift = None) => origin.x = last.before.x
    /\ (Exited /\ last.yshift = None) => origin.y = last.before.y

\* ------------------------------------------------------- _opposite_shift claim
RECURSIVE TermList(_, _, _)
\* the signed terms of a shift expression, in order
TermList(s, sign, term) ==
    LET done == IF term = <<>> THEN <<>> ELSE <<<<sign, term>>>>
    IN IF s = <<>> THEN done
       ELSE IF Head(s) \in {"+", "-"} THEN done \o TermList(Tail(s), IF Head(s) = "+" THEN 1 ELSE -1, <<>>)
       ELSE TermList(Tail(s), sign, Append(term, Head(s)))

Terms(s) == TermList(s, 1, <<>>)
Flipped(ts) == [i \in 1..Len(ts) |-> <<-ts[i][1], ts[i][2]>>]

\* the length a shift value stands for when it is given as -X<value>
Length(v) == IF v.t = "none" THEN Zero ELSE EvalShift(Format(v))

\* C10: _opposite_shift maps None to None, a number n to the float -n, a
\* numeric string to a string that reads as its negation, and a string of
\* signed terms to the same terms with every sign flipped, without a
\* leading "+" and with a leading "-" where the first term was positive; a
\* shift and its opposite add up to nothing, the opposite of the opposite
\* is worth the original, and a value of another type raises
\* GMTInvalidInput.
C10_OppositeShift ==
    /\ (opc \in {"once", "twice"} /\ oarg.t = "none") => ores = None
    /\ (opc \in {"once", "twice"} /\ oarg.t = "int") =>
          ores = PyFloat(oarg.v >= 0, 10 * (IF oarg.v < 0 THEN -oarg.v ELSE oarg.v))
    /\ (opc \in {"once", "twice"} /\ oarg.t = "float") =>
          (ores.t = "float" /\ ores.tenths = oarg.tenths /\ ores.neg # oarg.neg)
    /\ (opc \in {"once", "twice"} /\ oarg.t = "str" /\ IsFloatStr(oarg.s)) =>
          /\ ores.t = "str" /\ IsFloatStr(ores.s)
          /\ FloatOfStr(ores.s) = NegFloat(FloatOfStr(oarg.s))
    /\ (opc \in {"once", "twice"} /\ oarg.t = "str" /\ ~IsFloatStr(oarg.s)) =>
          /\ ores.t = "str"
          /\ Terms(ores.s) = Flipped(Terms(oarg.s))
          /\ ~StartsWith(ores.s, "+")
          /\ ~StartsWith(oarg.s, "-") => StartsWith(ores.s, "-")
    /\ opc \in {"once", "twice"} => VAdd(Length(oarg), Length(ores)) = Zero
    /\ opc = "twice" => Length(ores2) = Length(oarg)
    /\ (opc # "start" /\ oarg.t \notin {"none", "int", "float", "str"}) => (opc = "raised" /\ ores = GMTInvalidInput)
    /\ opc = "raised" => oarg.t \notin {"none", "int", "float", "str"}

C10_Witness ==
    /\ opc = "twice"
    /\ oarg = PyStr(<<"h", "/", "3", "+", "2", "c">>)
    /\ ores = PyStr(<<"-", "h", "/", "3", "-", "2", "c">>)
    /\ ores2 = oarg

====
